---- MODULE Spec2Model ----
(***************************************************************************)
(* AI Book Weaver: the state of the App component (React useState cells),  *)
(* its three asynchronous handlers (handleSuggestTitles,                   *)
(* handleGenerateBook, handleGenerateCover), the form controls that feed   *)
(* them, and the calls to the generation service that they await.          *)
(*                                                                         *)
(* A handler runs atomically between two awaits: JavaScript is single      *)
(* threaded, and the continuation of an await runs in the microtasks of    *)
(* the settlement, before any other event.  Each action below is therefore *)
(* either a user event (a click or an edit, with the guard the rendered    *)
(* control has) together with the handler's code up to its first await, or *)
(* the settlement of one call together with the code up to the next await. *)
(*                                                                         *)
(* Text values are sequences of one-character strings so that trim() is    *)
(* computed.  A nullable cell holds <<>> for null and <<v>> for a value.   *)
(***************************************************************************)
EXTENDS Integers, Sequences, FiniteSets, TLC

\* ------------------------------------------------------------------ bounds
\* Largest number of chapter titles an outline response carries.
MaxChapters == 2

\* ------------------------------------------------------------ nullable cells
NULL == <<>>
Some(v) == <<v>>
Val(cell) == cell[1]

\* ------------------------------------------------------------------- inputs
\* What the user can type into the title field: empty, blank, a title.
TitleInputs == { <<>>, <<" ">>, <<"A">> }
\* What the user can type into the author field.
AuthorInputs == { <<>>, <<" ">>, <<"N">> }
\* What the user can type into the subtitle field.
SubtitleInputs == { <<>>, <<"s">> }
\* What the user can type into the manual biography field.
BioInputs == { <<>>, <<"m">> }
\* What the user can type into the cover feedback field.
FeedbackInputs == { <<>>, <<" ">>, <<"f">> }
\* Chapter titles the outline service may answer with.
ChapterTitleValues == { "c1", "c2" }
\* Image payloads the image service may answer with.
ImageBytesValues == { "img1", "img2" }
\* The title list the suggestion service answers with.
SuggestionValues == { <<<<"B">>>> }

\* String.prototype.trim(): drop the leading and the trailing white space.
RECURSIVE TrimStart(_)
TrimStart(s) ==
    IF s # <<>> /\ Head(s) = " " THEN TrimStart(Tail(s)) ELSE s

RECURSIVE TrimEnd(_)
TrimEnd(s) ==
    IF s # <<>> /\ s[Len(s)] = " " THEN TrimEnd(SubSeq(s, 1, Len(s) - 1)) ELSE s

Trim(s) == TrimEnd(TrimStart(s))

\* !s for a string s: the empty string is the only falsy string.
Falsy(s) == s = <<>>

\* All sequences over S of length at most n.
RECURSIVE SeqUpTo(_, _)
SeqUpTo(S, n) ==
    IF n = 0 THEN { <<>> }
    ELSE LET shorter == SeqUpTo(S, n - 1)
         IN  shorter \cup { Append(s, x) : s \in { t \in shorter : Len(t) = n - 1 }, x \in S }

\* -------------------------------------------------- the generation service
\* The outlines generateBookOutline can return after JSON.parse: the four
\* fields of BookOutline, with a chapter list of any length up to the bound.
OutlineValues ==
    [ synopsis : { <<"syn">> },
      introductionTitle : { "intro" },
      chapterTitles : SeqUpTo(ChapterTitleValues, MaxChapters),
      conclusionTitle : { "concl" } ]

\* The prose generateChapterContent returns for a section title.
ContentFor(sectionTitle) == <<"prose of ", sectionTitle>>

\* The text generateAuthorBio returns.
GeneratedBio == <<"g">>

\* Messages of the errors the service functions throw.
OutlineFailure == <<"Failed to generate book outline. Please check the console for details.">>
ContentFailure(chapterTitle) == <<"Failed to generate content for chapter: ", chapterTitle>>
BioFailure == <<"Failed to generate author bio.">>
CoverFailure == <<"Failed to generate cover image.">>
TitlesFailure == <<"Failed to generate alternative titles.">>
\* Message of the TypeError raised by reading .length of an undefined list.
UndefinedLength == <<"Cannot read properties of undefined (reading 'length')">>

\* --------------------------------------------------------------- messages
FormError == <<"formError">>
SuggestBlankError == <<"Please enter a title to get suggestions.">>
GenerateError(message) == <<"An error occurred: ">> \o message
CoverError(message) == <<"Failed to generate cover: ">> \o message
SuggestError(message) == <<"Could not generate suggestions: ">> \o message

Step1Message == <<"Step 1/4: Generating author bio...">>
Step2Message == <<"Step 2/4: Generating book outline...">>
Step3Message(outline) ==
    <<"Step 3/4: Generating content for ",
      ToString(Len(outline.chapterTitles) + 2),
      " sections... (this may take a few minutes)">>
Step4Message == <<"Step 4/4: Assembling your book...">>
NoMessage == <<>>

\* `data:image/jpeg;base64,${imageBase64}`
DataUrl(imageBase64) == <<"data:image/jpeg;base64,", imageBase64>>

VARIABLES
    \* form state
    title, authorName, authorBioOption, authorBio, coverFeedback,
    \* app state
    isLoading, loadingMessage, generatedBook, error,
    isSuggesting, suggestedTitles,
    coverImage, isCoverLoading,
    \* the activation of handleGenerateBook
    pc,               \* "idle", or the call it awaits: "bio", "outline", "content"
    config,           \* the values of the form the callback closed over
    finalAuthorBio,
    outlineCall,      \* "none", "pending", "resolved", "rejected"
    outlineArg,       \* the argument of the generateBookOutline call, or NULL
    outline,          \* the local const outline, once the call resolved
    contentPromises,  \* one entry per call issued: [title, state]
    fulfilOrder,      \* the indices of contentPromises in the order in which
                      \* Promise.all received their fulfilments
    \* the activation of handleGenerateCover
    coverCall,        \* the last generateCoverImage call, or NULL: its arguments,
                      \* its state and, once fulfilled, the local const imageBase64
    \* the activation of handleSuggestTitles
    titlesCall,       \* the pending generateAlternativeTitles call, or NULL
    \* front and back matter of the form
    subtitle, dedication, acknowledgements,
    \* KDP formatting state
    fontFamily, fontSize,
    lineSpacing,      \* in hundredths: 115 stands for 1.15
    \* the activation of createAndDownloadDocx
    download          \* the last call, or NULL: its arguments and the local
                      \* const doc it built

formVars == <<title, authorName, authorBioOption, authorBio, coverFeedback>>
appVars == <<isLoading, loadingMessage, generatedBook, error,
             isSuggesting, suggestedTitles, coverImage, isCoverLoading>>
runVars == <<pc, config, finalAuthorBio, outlineCall, outlineArg, outline,
             contentPromises, fulfilOrder>>
coverVars == <<coverCall>>
matterVars == <<subtitle, dedication, acknowledgements>>
kdpVars == <<fontFamily, fontSize, lineSpacing>>
exportVars == <<matterVars, kdpVars, download>>
vars == <<formVars, appVars, runVars, coverVars, titlesCall, exportVars>>

Init ==
    /\ title = <<>>
    /\ authorName = <<>>
    /\ authorBioOption = "manual"
    /\ authorBio = <<>>
    /\ coverFeedback = <<>>
    /\ isLoading = FALSE
    /\ loadingMessage = NoMessage
    /\ generatedBook = NULL
    /\ error = NULL
    /\ isSuggesting = FALSE
    /\ suggestedTitles = <<>>
    /\ coverImage = NULL
    /\ isCoverLoading = FALSE
    /\ pc = "idle"
    /\ config = NULL
    /\ finalAuthorBio = <<>>
    /\ outlineCall = "none"
    /\ outlineArg = NULL
    /\ outline = NULL
    /\ contentPromises = <<>>
    /\ fulfilOrder = <<>>
    /\ coverCall = NULL
    /\ titlesCall = NULL
    /\ subtitle = <<>>
    /\ dedication = <<>>
    /\ acknowledgements = <<>>
    /\ fontFamily = "Garamond"
    /\ fontSize = 12
    /\ lineSpacing = 115
    /\ download = NULL

\* ------------------------------------------------------------ form controls
\* An input, select or textarea of the form: disabled while isLoading.
SetTitle(v) ==
    /\ ~isLoading
    /\ title' = v
    /\ UNCHANGED <<authorName, authorBioOption, authorBio, coverFeedback,
                   appVars, runVars, coverVars, titlesCall,
                   exportVars>>

SetAuthorName(v) ==
    /\ ~isLoading
    /\ authorName' = v
    /\ UNCHANGED <<title, authorBioOption, authorBio, coverFeedback,
                   appVars, runVars, coverVars, titlesCall,
                   exportVars>>

\* A variant of the subtitle input that is not disabled during a run.
SetSubtitleWhileLoading(v) ==
    /\ subtitle' = v
    /\ UNCHANGED <<formVars, appVars, runVars, coverVars, titlesCall,
                   dedication, acknowledgements, kdpVars, download>>

SetSubtitle(v) ==
    /\ ~isLoading
    /\ subtitle' = v
    /\ UNCHANGED <<formVars, appVars, runVars, coverVars, titlesCall,
                   dedication, acknowledgements, kdpVars, download>>

SetAuthorBioOption(v) ==
    /\ ~isLoading
    /\ authorBioOption' = v
    /\ UNCHANGED <<title, authorName, authorBio, coverFeedback,
                   appVars, runVars, coverVars, titlesCall,
                   exportVars>>

\* The biography textarea is rendered only for the manual option.
SetAuthorBio(v) ==
    /\ ~isLoading
    /\ authorBioOption = "manual"
    /\ authorBio' = v
    /\ UNCHANGED <<title, authorName, authorBioOption, coverFeedback,
                   appVars, runVars, coverVars, titlesCall,
                   exportVars>>

\* The result panel is rendered when a book is held and no run is loading.
ResultPanelShown == generatedBook # NULL /\ ~isLoading

\* The feedback textarea sits under the cover image, disabled while
\* isCoverLoading.
SetCoverFeedback(v) ==
    /\ ResultPanelShown
    /\ coverImage # NULL
    /\ ~isCoverLoading
    /\ coverFeedback' = v
    /\ UNCHANGED <<title, authorName, authorBioOption, authorBio,
                   appVars, runVars, coverVars, titlesCall,
                   exportVars>>

\* ------------------------------------------------------ handleSuggestTitles
\* The suggest button is rendered when no suggestion is listed and none is
\* being fetched, and is disabled while isLoading or for a blank title.
SuggestEnabled ==
    /\ suggestedTitles = <<>>
    /\ ~isSuggesting
    /\ ~isLoading
    /\ ~Falsy(Trim(title))

\* A variant that also resets the result of the last run, as a submission
\* of the form does.
ClickSuggestTitlesResetsResult ==
    /\ SuggestEnabled
    /\ isSuggesting' = TRUE
    /\ suggestedTitles' = <<>>
    /\ error' = NULL
    /\ titlesCall' = Some(title)
    /\ generatedBook' = NULL
    /\ coverImage' = NULL
    /\ UNCHANGED <<formVars, isLoading, loadingMessage,
                   isCoverLoading, runVars, coverVars,
                   exportVars>>

\* The code of handleSuggestTitles up to the await.
ClickSuggestTitles ==
    /\ SuggestEnabled
    /\ IF Falsy(Trim(title))
       THEN /\ error' = Some(SuggestBlankError)
            /\ UNCHANGED <<isSuggesting, suggestedTitles, titlesCall>>
       ELSE /\ isSuggesting' = TRUE
            /\ suggestedTitles' = <<>>
            /\ error' = NULL
            /\ titlesCall' = Some(title)
    /\ UNCHANGED <<formVars, isLoading, loadingMessage, generatedBook,
                   coverImage, isCoverLoading, runVars, coverVars,
                   exportVars>>

\* A variant that also makes the first suggestion the working title.
TitlesResolveAppliesFirst(titles) ==
    /\ titlesCall # NULL
    /\ suggestedTitles' = titles
    /\ isSuggesting' = FALSE
    /\ titlesCall' = NULL
    /\ title' = titles[1]
    /\ UNCHANGED <<authorName, authorBioOption, authorBio, coverFeedback,
                   isLoading, loadingMessage, generatedBook, error,
                   coverImage, isCoverLoading, runVars, coverVars,
                   exportVars>>

\* generateAlternativeTitles resolves: setSuggestedTitles(titles), then the
\* finally block.
TitlesResolve(titles) ==
    /\ titlesCall # NULL
    /\ suggestedTitles' = titles
    /\ isSuggesting' = FALSE
    /\ titlesCall' = NULL
    /\ UNCHANGED <<formVars, isLoading, loadingMessage, generatedBook, error,
                   coverImage, isCoverLoading, runVars, coverVars,
                   exportVars>>

TitlesReject ==
    /\ titlesCall # NULL
    /\ error' = Some(SuggestError(TitlesFailure))
    /\ isSuggesting' = FALSE
    /\ titlesCall' = NULL
    /\ UNCHANGED <<formVars, isLoading, loadingMessage, generatedBook,
                   suggestedTitles, coverImage, isCoverLoading, runVars, coverVars,
                   exportVars>>

\* A variant in which the chosen suggestion also becomes the title of the
\* Book that is held.
SelectSuggestionRenamesBook(i) ==
    /\ suggestedTitles # <<>>
    /\ ~isSuggesting
    /\ i \in 1..Len(suggestedTitles)
    /\ title' = suggestedTitles[i]
    /\ suggestedTitles' = <<>>
    /\ generatedBook' = IF generatedBook = NULL THEN NULL
                        ELSE Some([ Val(generatedBook) EXCEPT
                                      !.title = suggestedTitles[i] ])
    /\ UNCHANGED <<authorName, authorBioOption, authorBio, coverFeedback,
                   isLoading, loadingMessage, error, isSuggesting,
                   coverImage, isCoverLoading, runVars, coverVars, titlesCall,
                   exportVars>>

\* The suggestion list is rendered when it is non-empty and none is being
\* fetched; a click on a suggestion makes it the title.
SelectSuggestion(i) ==
    /\ suggestedTitles # <<>>
    /\ ~isSuggesting
    /\ i \in 1..Len(suggestedTitles)
    /\ title' = suggestedTitles[i]
    /\ suggestedTitles' = <<>>
    /\ UNCHANGED <<authorName, authorBioOption, authorBio, coverFeedback,
                   isLoading, loadingMessage, generatedBook, error, isSuggesting,
                   coverImage, isCoverLoading, runVars, coverVars, titlesCall,
                   exportVars>>

ClearSuggestions ==
    /\ suggestedTitles # <<>>
    /\ ~isSuggesting
    /\ suggestedTitles' = <<>>
    /\ UNCHANGED <<formVars, isLoading, loadingMessage, generatedBook, error,
                   isSuggesting, coverImage, isCoverLoading, runVars, coverVars,
                   titlesCall,
                   exportVars>>

\* ------------------------------------------------------- handleGenerateBook
\* A variant of the generate button that stays enabled during a run.
GenerateDisabledIgnoresLoading ==
    isSuggesting \/ Falsy(title) \/ Falsy(authorName)

\* The generate button: disabled={isLoading || isSuggesting || !title || !authorName}
GenerateDisabled ==
    isLoading \/ isSuggesting \/ Falsy(title) \/ Falsy(authorName)

\* A variant that tests the values without trimming them.
ValidationFailsUntrimmed(t, a) == Falsy(t) \/ Falsy(a)

\* if (!title.trim() || !authorName.trim())
ValidationFails(t, a) == Falsy(Trim(t)) \/ Falsy(Trim(a))

\* The responses of the outline model call as generateBookOutline sees them:
\* the call rejects, its text is not JSON, or its text parses to an object,
\* which carries the chapter list or lacks it.
OutlineResponses ==
    { [ kind |-> "rejects" ], [ kind |-> "unparsable" ] }
    \cup { [ kind |-> "parsed", json |-> o ] : o \in OutlineValues }
    \cup { [ kind |-> "parsed",
             json |-> [ synopsis |-> <<"syn">>, introductionTitle |-> "intro",
                        conclusionTitle |-> "concl" ] ] }

\* generateBookOutline: whatever is thrown inside its try block becomes the
\* one generic error; a parsed object is returned as it is.
GenerateBookOutline(response) ==
    IF response.kind = "parsed"
    THEN [ state |-> "resolved", value |-> response.json ]
    ELSE [ state |-> "rejected", reason |-> OutlineFailure ]

\* A variant that swallows the rejection and goes on with an empty outline.
AwaitOutlineWithFallback(settled) ==
    IF settled.state = "rejected"
    THEN [ thrown |-> FALSE,
           value |-> [ synopsis |-> <<"syn">>, introductionTitle |-> "intro",
                       chapterTitles |-> <<>>, conclusionTitle |-> "concl" ] ]
    ELSE [ thrown |-> FALSE, value |-> settled.value ]

\* const outline = await generateBookOutline(generationConfig), inside try:
\* a rejection is thrown to the catch block, a resolution is the outline.
AwaitOutline(settled) ==
    IF settled.state = "rejected"
    THEN [ thrown |-> TRUE, reason |-> settled.reason ]
    ELSE [ thrown |-> FALSE, value |-> settled.value ]

\* const generationConfig: GenerationConfig = { title, subtitle, authorName,
\* ... }, built from the values the callback closed over; the selects of the
\* form are left at their initial values.
GenerationConfig(cfg) ==
    [ title |-> cfg.title, subtitle |-> cfg.subtitle,
      authorName |-> cfg.authorName ]

\* A variant that issues every content call a second time.
ContentPromisesIssuedTwice(generationConfig, o) ==
    LET n == Len(o.chapterTitles)
        call(k) == [ config |-> generationConfig,
                     title |-> IF k = 1 THEN o.introductionTitle
                               ELSE IF k = n + 2 THEN o.conclusionTitle
                               ELSE o.chapterTitles[k - 1],
                     state |-> "pending" ]
    IN  [ k \in 1..(2 * (n + 2)) |->
            call(IF k <= n + 2 THEN k ELSE k - (n + 2)) ]

\* The array contentPromises: one call for the introduction, one per chapter
\* title in the outline's order, one for the conclusion, all issued at once.
ContentPromisesOf(generationConfig, o) ==
    LET n == Len(o.chapterTitles)
    IN  [ k \in 1..(n + 2) |->
            [ config |-> generationConfig,
              title |-> IF k = 1 THEN o.introductionTitle
                        ELSE IF k = n + 2 THEN o.conclusionTitle
                        ELSE o.chapterTitles[k - 1],
              state |-> "pending" ] ]

\* The value a fulfilled content promise holds:
\* .then(content => ({ title: chapterTitle, content }))
ChapterOf(promise) ==
    [ title |-> promise.title, content |-> ContentFor(promise.title) ]

\* A variant that waits for every call to settle and salvages the sections
\* that resolved.
PromiseAllSettled(promises) ==
    IF \E k \in 1..Len(promises) : promises[k].state = "pending" THEN "pending"
    ELSE IF \A k \in 1..Len(promises) : promises[k].state = "rejected" THEN "rejected"
    ELSE "fulfilled"

\* A variant that fulfils with the first fulfilment, as Promise.race does.
PromiseRace(promises) ==
    IF \E k \in 1..Len(promises) : promises[k].state = "rejected" THEN "rejected"
    ELSE IF \E k \in 1..Len(promises) : promises[k].state = "fulfilled" THEN "fulfilled"
    ELSE "pending"

\* The state of Promise.all(promises): rejected as soon as one promise is,
\* fulfilled once all are, pending otherwise.
PromiseAll(promises) ==
    IF \E k \in 1..Len(promises) : promises[k].state = "rejected" THEN "rejected"
    ELSE IF \A k \in 1..Len(promises) : promises[k].state = "fulfilled" THEN "fulfilled"
    ELSE "pending"

\* A variant that pushes each value as its fulfilment arrives.
AllContentByArrival(promises, order) ==
    [ j \in 1..Len(order) |-> ChapterOf(promises[order[j]]) ]

\* The array Promise.all fulfils with: the fulfilment of the k-th promise
\* stores its value at index k, whatever the order the fulfilments arrived
\* in; an index below the largest stored one that has no value yet is a hole.
AllContent(promises, order) ==
    LET stored == { order[i] : i \in 1..Len(order) }
        length == IF stored = {} THEN 0
                  ELSE CHOOSE k \in stored : \A j \in stored : j <= k
    IN  [ j \in 1..length |->
            IF j \in stored THEN ChapterOf(promises[j]) ELSE <<>> ]

\* A variant that slices with slice(1): the elements but the first.
SliceFromSecond(s) == IF Len(s) <= 1 THEN <<>> ELSE SubSeq(s, 2, Len(s))

\* Array.prototype.slice(1, -1): the elements but the first and the last.
SliceInner(s) == IF Len(s) <= 2 THEN <<>> ELSE SubSeq(s, 2, Len(s) - 1)

\* `Copyright (c) ${new Date().getFullYear()} ${authorName}. All rights
\* reserved.`, the year standing as a token.
Copyright(name) ==
    <<"Copyright (c) ", "year", " ">> \o name \o <<". All rights reserved.">>

\* const book: Book = { ... }
AssembleBook(cfg, bio, o, allContent) ==
    [ title |-> cfg.title,
      subtitle |-> cfg.subtitle,
      authorName |-> cfg.authorName,
      copyright |-> Copyright(cfg.authorName),
      dedication |-> cfg.dedication,
      acknowledgements |-> cfg.acknowledgements,
      authorBio |-> bio,
      synopsis |-> o.synopsis,
      introduction |-> allContent[1],
      chapters |-> SliceInner(allContent),
      conclusion |-> allContent[Len(allContent)] ]

\* A variant of the finally block that forgets setIsLoading(false).
RunEndsStillLoading ==
    /\ isLoading' = isLoading
    /\ loadingMessage' = NoMessage
    /\ pc' = "idle"

\* A variant of the finally block that forgets setLoadingMessage('').
RunEndsKeepsMessage ==
    /\ isLoading' = FALSE
    /\ loadingMessage' = loadingMessage
    /\ pc' = "idle"

\* The finally block.
RunEnds ==
    /\ isLoading' = FALSE
    /\ loadingMessage' = NoMessage
    /\ pc' = "idle"

\* A variant without the finally block: the error is set, the run is over,
\* and the loading state is left as it was.
RunFailsWithoutFinally(message) ==
    /\ error' = Some(GenerateError(message))
    /\ pc' = "idle"
    /\ UNCHANGED <<generatedBook, isLoading, loadingMessage,
                   exportVars>>

\* The catch block, then the finally block.
RunFails(message) ==
    /\ error' = Some(GenerateError(message))
    /\ RunEnds
    /\ UNCHANGED <<generatedBook,
                   exportVars>>

\* What Promise.all has collected once a call settled: it keeps collecting
\* while it is pending, its collection is the array allContent when it
\* fulfils, and is dropped when it rejects.
Collected(all, order) == IF all = "rejected" THEN <<>> ELSE order

\* A variant of the reset that leaves the held cover image in place.
ResetResultKeepsCover ==
    /\ generatedBook' = NULL
    /\ error' = NULL
    /\ suggestedTitles' = <<>>
    /\ UNCHANGED coverImage

\* setGeneratedBook(null); setCoverImage(null); setError(null);
\* setSuggestedTitles([]);
ResetResult ==
    /\ generatedBook' = NULL
    /\ coverImage' = NULL
    /\ error' = NULL
    /\ suggestedTitles' = <<>>

\* The click on the generate button: the validation, the reset of the last
\* result, and the code up to the first await.
ClickGenerateBook ==
    /\ ~GenerateDisabled
    /\ IF ValidationFails(title, authorName)
       THEN /\ error' = Some(FormError)
            /\ UNCHANGED <<formVars, isLoading, loadingMessage, generatedBook,
                           isSuggesting, suggestedTitles, coverImage,
                           isCoverLoading, runVars, coverVars, titlesCall,
                           exportVars>>
       ELSE /\ isLoading' = TRUE
            /\ ResetResult
            /\ config' = Some([ title |-> title, subtitle |-> subtitle,
                                authorName |-> authorName,
                                authorBio |-> authorBio,
                                dedication |-> dedication,
                                acknowledgements |-> acknowledgements ])
            /\ finalAuthorBio' = authorBio
            /\ outline' = NULL
            /\ contentPromises' = <<>>
            /\ fulfilOrder' = <<>>
            /\ IF authorBioOption = "auto"
               THEN /\ loadingMessage' = Step1Message
                    /\ pc' = "bio"
                    /\ outlineCall' = "none"
                    /\ outlineArg' = NULL
               ELSE /\ loadingMessage' = Step2Message
                    /\ pc' = "outline"
                    /\ outlineCall' = "pending"
                    /\ outlineArg' = Some(GenerationConfig(Val(config')))
            /\ UNCHANGED <<formVars, isSuggesting, isCoverLoading, coverVars,
                           titlesCall,
                           exportVars>>

\* A variant that keeps the generated biography to the run and leaves the
\* form as it was.
BioResolveWithoutWriteBack ==
    /\ pc = "bio"
    /\ finalAuthorBio' = GeneratedBio
    /\ loadingMessage' = Step2Message
    /\ pc' = "outline"
    /\ outlineCall' = "pending"
    /\ outlineArg' = Some(GenerationConfig(Val(config)))
    /\ UNCHANGED <<formVars, isLoading, generatedBook, error, isSuggesting,
                   suggestedTitles, coverImage, isCoverLoading, config, outline,
                   contentPromises, fulfilOrder, coverVars, titlesCall,
                   exportVars>>

\* generateAuthorBio resolves: setAuthorBio(finalAuthorBio), then the code up
\* to the await of the outline call.
BioResolve ==
    /\ pc = "bio"
    /\ finalAuthorBio' = GeneratedBio
    /\ authorBio' = GeneratedBio
    /\ loadingMessage' = Step2Message
    /\ pc' = "outline"
    /\ outlineCall' = "pending"
    /\ outlineArg' = Some(GenerationConfig(Val(config)))
    /\ UNCHANGED <<title, authorName, authorBioOption, coverFeedback,
                   isLoading, generatedBook, error, isSuggesting, suggestedTitles,
                   coverImage, isCoverLoading, config, outline, contentPromises,
                   fulfilOrder, coverVars, titlesCall,
                   exportVars>>

\* generateAuthorBio rejects.
BioReject ==
    /\ pc = "bio"
    /\ RunFails(BioFailure)
    /\ UNCHANGED <<formVars, isSuggesting, suggestedTitles, coverImage,
                   isCoverLoading, config, finalAuthorBio, outlineCall, outlineArg,
                   outline,
                   contentPromises, fulfilOrder, coverVars, titlesCall,
                   exportVars>>

\* generateBookOutline settles for the given response of the model call, and
\* the handler runs on to the await of Promise.all.
OutlineSettle(response) ==
    /\ pc = "outline"
    /\ outlineCall = "pending"
    /\ LET settled == GenerateBookOutline(response)
           awaited == AwaitOutline(settled)
       IN  /\ outlineCall' = settled.state
           /\ IF awaited.thrown
              THEN /\ RunFails(awaited.reason)
                   /\ UNCHANGED <<outline, contentPromises>>
              ELSE /\ outline' = Some(awaited.value)
                   /\ IF "chapterTitles" \notin DOMAIN awaited.value
                      THEN \* outline.chapterTitles.length throws a TypeError
                           /\ RunFails(UndefinedLength)
                           /\ UNCHANGED <<contentPromises>>
                      ELSE /\ loadingMessage' = Step3Message(awaited.value)
                           /\ contentPromises' = ContentPromisesOf(GenerationConfig(Val(config)),
                                                                   awaited.value)
                           /\ pc' = "content"
                           /\ UNCHANGED <<isLoading, generatedBook, error>>
    /\ UNCHANGED <<formVars, isSuggesting, suggestedTitles, coverImage,
                   isCoverLoading, config, finalAuthorBio, outlineArg,
                   fulfilOrder,
                   coverVars, titlesCall,
                   exportVars>>

\* The k-th generateChapterContent call settles.  While the handler awaits
\* Promise.all, a fulfilment is handed to Promise.all, and the handler goes
\* on as soon as Promise.all settles: to the assembly when it fulfils, to the
\* catch block with the reason of the call when it rejects.  Once the run has
\* ended nobody listens to the call any more.
ContentSettle(k, state) ==
    /\ k \in 1..Len(contentPromises)
    /\ contentPromises[k].state = "pending"
    /\ LET promises == [ contentPromises EXCEPT ![k].state = state ]
           order == IF state = "fulfilled" THEN Append(fulfilOrder, k)
                    ELSE fulfilOrder
           all == PromiseAll(promises)
       IN  /\ contentPromises' = promises
           /\ IF pc # "content"
              THEN UNCHANGED <<isLoading, loadingMessage, generatedBook, error,
                               pc, fulfilOrder>>
              ELSE /\ fulfilOrder' = Collected(all, order)
                   /\ IF all = "fulfilled"
                      THEN /\ generatedBook' =
                                 Some(AssembleBook(Val(config), finalAuthorBio,
                                                   Val(outline),
                                                   AllContent(promises, order)))
                           /\ RunEnds
                           /\ UNCHANGED <<error>>
                      ELSE IF all = "rejected"
                      THEN RunFails(ContentFailure(promises[k].title))
                      ELSE UNCHANGED <<isLoading, loadingMessage, generatedBook,
                                       error, pc>>
    /\ UNCHANGED <<formVars, isSuggesting, suggestedTitles, coverImage,
                   isCoverLoading, config, finalAuthorBio, outlineCall, outlineArg,
                   outline,
                   coverVars, titlesCall,
                   exportVars>>

ContentFulfil(k) == ContentSettle(k, "fulfilled")

ContentReject(k) == ContentSettle(k, "rejected")

\* ------------------------------------------------------ handleGenerateCover
\* The prompt generateCoverImage sends: the cover instructions around the
\* synopsis, and the correction instructions when a feedback was passed and
\* is not blank: if (feedback && feedback.trim()) prompt += ...
\* The interpolated fields of the configuration are left out.
CoverPrompt(synopsis, feedback) ==
    <<"Create a stunning, high-quality book cover ... Synopsis: ">>
    \o synopsis
    \o IF feedback # NULL /\ ~Falsy(Val(feedback)) /\ ~Falsy(Trim(Val(feedback)))
       THEN <<"IMPORTANT CORRECTION INSTRUCTIONS: ">> \o Val(feedback)
       ELSE <<>>

\* if (!generatedBook) return; then the code up to the await.
HandleGenerateCover(feedback) ==
    IF generatedBook = NULL
    THEN UNCHANGED <<isCoverLoading, error, coverCall>>
    ELSE /\ isCoverLoading' = TRUE
         /\ error' = NULL
         /\ coverCall' = Some([ title |-> Val(generatedBook).title,
                                synopsis |-> Val(generatedBook).synopsis,
                                feedback |-> feedback,
                                prompt |-> CoverPrompt(Val(generatedBook).synopsis,
                                                       feedback),
                                state |-> "pending",
                                imageBase64 |-> NULL ])

\* A variant of the generate-cover button that is not disabled while a
\* cover request is pending.
ClickGenerateCoverWhileLoading ==
    /\ ResultPanelShown
    /\ coverImage = NULL
    /\ HandleGenerateCover(NULL)
    /\ UNCHANGED <<formVars, isLoading, loadingMessage, generatedBook,
                   isSuggesting, suggestedTitles, coverImage, runVars,
                   titlesCall,
                   exportVars>>

\* The "generate cover" button, rendered while no cover image is held:
\* onClick={() => handleGenerateCover()}, disabled={isCoverLoading}
ClickGenerateCover ==
    /\ ResultPanelShown
    /\ coverImage = NULL
    /\ ~isCoverLoading
    /\ HandleGenerateCover(NULL)
    /\ UNCHANGED <<formVars, isLoading, loadingMessage, generatedBook,
                   isSuggesting, suggestedTitles, coverImage, runVars,
                   titlesCall,
                   exportVars>>

\* The "correct cover" button, rendered under the held cover image:
\* onClick={() => handleGenerateCover(coverFeedback)},
\* disabled={isCoverLoading || !coverFeedback.trim()}
ClickCorrectCover ==
    /\ ResultPanelShown
    /\ coverImage # NULL
    /\ ~isCoverLoading
    /\ ~Falsy(Trim(coverFeedback))
    /\ HandleGenerateCover(Some(coverFeedback))
    /\ UNCHANGED <<formVars, isLoading, loadingMessage, generatedBook,
                   isSuggesting, suggestedTitles, coverImage, runVars,
                   titlesCall,
                   exportVars>>

CoverPending == coverCall # NULL /\ Val(coverCall).state = "pending"

\* A variant that keeps a held image and stores the new one only in an
\* empty cell.
CoverImageKeptIfHeld(held, bytes) ==
    IF held = NULL THEN Some(DataUrl(bytes)) ELSE held

\* What the try block leaves in the coverImage cell when the call resolved:
\* setCoverImage(`data:image/jpeg;base64,${imageBase64}`)
CoverImageAfterSuccess(held, bytes) == Some(DataUrl(bytes))

\* A variant of the try block without setCoverFeedback('').
CoverResolveKeepsFeedback(bytes) ==
    /\ CoverPending
    /\ coverCall' = Some([ Val(coverCall) EXCEPT !.state = "fulfilled",
                                                 !.imageBase64 = Some(bytes) ])
    /\ coverImage' = CoverImageAfterSuccess(coverImage, bytes)
    /\ isCoverLoading' = FALSE
    /\ UNCHANGED <<formVars, isLoading, loadingMessage, generatedBook, error,
                   isSuggesting, suggestedTitles, runVars, titlesCall,
                   exportVars>>

\* generateCoverImage resolves with the bytes of one image.
CoverResolve(bytes) ==
    /\ CoverPending
    /\ coverCall' = Some([ Val(coverCall) EXCEPT !.state = "fulfilled",
                                                 !.imageBase64 = Some(bytes) ])
    /\ coverImage' = CoverImageAfterSuccess(coverImage, bytes)
    /\ coverFeedback' = <<>>
    /\ isCoverLoading' = FALSE
    /\ UNCHANGED <<title, authorName, authorBioOption, authorBio,
                   isLoading, loadingMessage, generatedBook, error,
                   isSuggesting, suggestedTitles, runVars, titlesCall,
                   exportVars>>

\* A variant that clears the cell when the call rejected.
CoverImageClearedAfterFailure(held) == NULL

\* What the catch block leaves in the coverImage cell when the call rejected.
CoverImageAfterFailure(held) == held

\* generateCoverImage rejects.
CoverReject ==
    /\ CoverPending
    /\ coverCall' = Some([ Val(coverCall) EXCEPT !.state = "rejected" ])
    /\ error' = Some(CoverError(CoverFailure))
    /\ coverImage' = CoverImageAfterFailure(coverImage)
    /\ isCoverLoading' = FALSE
    /\ UNCHANGED <<formVars, isLoading, loadingMessage, generatedBook,
                   isSuggesting, suggestedTitles, runVars, titlesCall,
                   exportVars>>

\* ----------------------------------------------------- createAndDownloadDocx
\* new Paragraph({ text, ... }): the text of the node and what formats it,
\* a named paragraph style, a heading level or inline alignment.
Paragraph(text, format) == [ text |-> text, format |-> format ]

\* new Paragraph({ children: [new PageBreak()] })
PageBreakParagraph == Paragraph(<<>>, "PageBreak")

\* new Paragraph({ text, heading: HeadingLevel.HEADING_1 }); a section title
\* is one token, and the text of a node is a sequence of tokens.
Heading(text) == Paragraph(text, "HEADING_1")

\* s.split('\n'): the pieces of s between its line breaks, empty ones
\* included; a text without line break is its own single piece.
RECURSIVE Split(_)
Split(s) ==
    IF \A i \in 1..Len(s) : s[i] # "\n" THEN << s >>
    ELSE LET i == CHOOSE k \in 1..Len(s) :
                      s[k] = "\n" /\ \A j \in 1..(k - 1) : s[j] # "\n"
         IN  << SubSeq(s, 1, i - 1) >> \o Split(SubSeq(s, i + 1, Len(s)))

\* A variant that keeps every line.
AllLines(lines) == lines

\* .filter(p => p.trim() !== '')
NonEmptyLines(lines) == SelectSeq(lines, LAMBDA p : Trim(p) # <<>>)

\* text.split('\n').filter(...).map(p => new Paragraph({ text: p,
\* style: "normalPara" }))
ProseParagraphs(text) ==
    LET lines == NonEmptyLines(Split(text))
    IN  [ i \in 1..Len(lines) |-> Paragraph(lines[i], "normalPara") ]

\* A variant that spreads the nodes whatever the text.
SpreadAlways(text, nodes) == nodes

\* ...(text ? [nodes] : []): an empty or undefined text is falsy.
SpreadIf(text, nodes) == IF Falsy(text) THEN <<>> ELSE nodes

\* 1. Internal cover page
CoverPage(book) ==
    << Paragraph(book.title, "titleStyle") >>
    \o SpreadIf(book.subtitle, << Paragraph(book.subtitle, "subtitle") >>)
    \o << Paragraph(book.authorName, "author"), PageBreakParagraph >>

\* 2. Copyright page
CopyrightPage(book) ==
    << Paragraph(book.copyright, "CENTER"), PageBreakParagraph >>

\* 3. Dedication (optional)
DedicationPage(book) ==
    SpreadIf(book.dedication,
             << Paragraph(book.dedication, "CENTER italics"),
                PageBreakParagraph >>)

\* 4. Synopsis
SynopsisSection(book) ==
    << Heading(<<"Synopsis">>) >>
    \o ProseParagraphs(book.synopsis)
    \o << PageBreakParagraph >>

\* 5. Introduction
IntroductionSection(book) ==
    << Heading(<< book.introduction.title >>) >>
    \o ProseParagraphs(book.introduction.content)

\* The nodes one chapter maps to.
ChapterSection(chapter) ==
    << PageBreakParagraph, Heading(<< chapter.title >>) >>
    \o ProseParagraphs(chapter.content)

\* A variant that emits the chapters last to first.
RECURSIVE ChapterSectionsReversed(_)
ChapterSectionsReversed(chapters) ==
    IF chapters = <<>> THEN <<>>
    ELSE ChapterSectionsReversed(Tail(chapters)) \o ChapterSection(Head(chapters))

\* 6. Chapters: book.chapters.flatMap(chapter => [...])
RECURSIVE ChapterSections(_)
ChapterSections(chapters) ==
    IF chapters = <<>> THEN <<>>
    ELSE ChapterSection(Head(chapters)) \o ChapterSections(Tail(chapters))

\* 7. Conclusion
ConclusionSection(book) ==
    << PageBreakParagraph, Heading(<< book.conclusion.title >>) >>
    \o ProseParagraphs(book.conclusion.content)

\* 8. Acknowledgements (optional)
AcknowledgementsSection(book) ==
    SpreadIf(book.acknowledgements,
             << PageBreakParagraph, Heading(<<"Acknowledgements">>) >>
             \o ProseParagraphs(book.acknowledgements))

\* 9. About the Author (optional)
AboutTheAuthorSection(book) ==
    SpreadIf(book.authorBio,
             << PageBreakParagraph, Heading(<<"About the Author">>) >>
             \o ProseParagraphs(book.authorBio))

\* 10. Final page
FinalPage ==
    << PageBreakParagraph, Paragraph(<<"Thank you for reading.">>, "CENTER") >>

\* The children array of the document's one section.
Children(book) ==
    CoverPage(book) \o CopyrightPage(book) \o DedicationPage(book)
    \o SynopsisSection(book) \o IntroductionSection(book)
    \o ChapterSections(book.chapters) \o ConclusionSection(book)
    \o AcknowledgementsSection(book) \o AboutTheAuthorSection(book)
    \o FinalPage

\* A variant that takes the point size for the run size.
FontSizeInPoints(size) == size

\* const FONT_SIZE_POINTS = fontSize * 2: run sizes are in half-points.
FontSizePoints(size) == size * 2

\* Math.round(x) for x = numerator / denominator >= 0.
MathRound(numerator, denominator) ==
    (2 * numerator + denominator) \div (2 * denominator)

\* const SPACING_LINE = Math.round(lineSpacing * 240), the spacing being
\* held in hundredths.
SpacingLine(spacing) == MathRound(spacing * 240, 100)

\* styles.paragraphStyles: the style every prose paragraph names, and the
\* styles of the cover page.
ParagraphStyles(options) ==
    [ normalPara |-> [ font |-> options.fontFamily,
                       size |-> FontSizePoints(options.fontSize),
                       line |-> SpacingLine(options.lineSpacing) ],
      subtitle |-> [ font |-> options.fontFamily, size |-> 32 ],
      author |-> [ font |-> options.fontFamily, size |-> 28 ] ]

\* const doc = new Document({ ... })
CreateDocx(book, options) ==
    [ title |-> book.title,
      description |-> book.synopsis,
      paragraphStyles |-> ParagraphStyles(options),
      children |-> Children(book) ]

\* The selects of the download panel, rendered with the result panel.
FontFamilies == { "Garamond", "Times New Roman" }
FontSizes == 10..14
LineSpacings == { 115, 150 }

SetFontFamily(v) ==
    /\ ResultPanelShown
    /\ fontFamily' = v
    /\ UNCHANGED <<formVars, appVars, runVars, coverVars, titlesCall,
                   matterVars, fontSize, lineSpacing, download>>

SetFontSize(v) ==
    /\ ResultPanelShown
    /\ fontSize' = v
    /\ UNCHANGED <<formVars, appVars, runVars, coverVars, titlesCall,
                   matterVars, fontFamily, lineSpacing, download>>

SetLineSpacing(v) ==
    /\ ResultPanelShown
    /\ lineSpacing' = v
    /\ UNCHANGED <<formVars, appVars, runVars, coverVars, titlesCall,
                   matterVars, fontFamily, fontSize, download>>

\* The download button: onClick={() => createAndDownloadDocx(generatedBook,
\* { fontSize, lineSpacing, fontFamily })}
ClickDownload ==
    /\ ResultPanelShown
    /\ LET options == [ fontSize |-> fontSize, lineSpacing |-> lineSpacing,
                        fontFamily |-> fontFamily ]
       IN  download' = Some([ book |-> Val(generatedBook),
                              options |-> options,
                              doc |-> CreateDocx(Val(generatedBook), options) ])
    /\ UNCHANGED <<formVars, appVars, runVars, coverVars, titlesCall,
                   matterVars, kdpVars>>

\* ------------------------------------------------------------ specifications
\* The inputs of a set that are not blank.
NonBlank(inputs) == { v \in inputs : ~Falsy(Trim(v)) }

\* The generation pipeline: the user fills the form with non-blank values and
\* starts runs, and the service settles the calls of each run in any order.
Next ==
    \/ \E v \in NonBlank(TitleInputs) : SetTitle(v)
    \/ \E v \in NonBlank(AuthorInputs) : SetAuthorName(v)
    \/ \E v \in SubtitleInputs : SetSubtitle(v)
    \/ \E v \in {"manual", "auto"} : SetAuthorBioOption(v)
    \/ \E v \in NonBlank(BioInputs) : SetAuthorBio(v)
    \/ ClickGenerateBook
    \/ BioResolve
    \/ BioReject
    \/ \E r \in OutlineResponses : OutlineSettle(r)
    \/ \E k \in 1..(MaxChapters + 2) : ContentFulfil(k)
    \/ \E k \in 1..(MaxChapters + 2) : ContentReject(k)

Spec == Init /\ [][Next]_vars

\* The outline responses of the runs of the whole application below: the
\* call rejects, or answers with an outline without chapters.
ShortOutlineResponses ==
    { r \in OutlineResponses :
        r.kind = "rejects"
        \/ (r.kind = "parsed" /\ "chapterTitles" \in DOMAIN r.json
                              /\ r.json.chapterTitles = <<>>) }

\* The whole application around short books: title suggestions, generation
\* runs with the manual biography, and cover requests, interleaved.
NextApp ==
    \/ \E v \in TitleInputs : SetTitle(v)
    \/ \E v \in AuthorInputs : SetAuthorName(v)
    \/ \E v \in FeedbackInputs : SetCoverFeedback(v)
    \/ ClickSuggestTitles
    \/ \E t \in SuggestionValues : TitlesResolve(t)
    \/ TitlesReject
    \/ \E i \in 1..1 : SelectSuggestion(i)
    \/ ClearSuggestions
    \/ ClickGenerateBook
    \/ \E r \in ShortOutlineResponses : OutlineSettle(r)
    \/ \E k \in 1..2 : ContentFulfil(k)
    \/ \E k \in 1..2 : ContentReject(k)
    \/ ClickGenerateCover
    \/ ClickCorrectCover
    \/ \E b \in ImageBytesValues : CoverResolve(b)
    \/ CoverReject

SpecApp == Init /\ [][NextApp]_vars

\* The generation pipeline when every call of the service eventually settles.
FairSpec ==
    /\ Spec
    /\ WF_vars(BioResolve \/ BioReject)
    /\ WF_vars(\E r \in OutlineResponses : OutlineSettle(r))
    /\ WF_vars(\E k \in 1..(MaxChapters + 2) : ContentFulfil(k) \/ ContentReject(k))

\* The inputs of the export: what the user typed in the front and back
\* matter fields, and what the service returned for the synopsis and for
\* the section of a given title, line breaks and blank lines included.
DedicationInputs == { <<>>, <<"d">> }
AcknowledgementsInputs == { <<>>, <<" ">>, <<"k", "\n", " ", "\n", "l">> }
BiographyInputs == { <<>>, <<"m", "\n", "\n", "n">> }
SynopsisValues == { <<"y">>, <<"y", "\n", "\n", "z">> }
ContentResponses ==
    { [ kind |-> "plain" ], [ kind |-> "spaced" ] }
ContentOf(response, sectionTitle) ==
    IF response.kind = "plain"
    THEN << sectionTitle, "\n", "q" >>
    ELSE << "\n", sectionTitle, "\n", " ", "\n", "\n", "q", " ", "\n" >>

\* The state after a run that succeeded: the form as it was submitted, the
\* outline and the content the calls returned, and the Book assembled from
\* them, shown in the result panel.
InitExport ==
    \E sub \in SubtitleInputs, ded \in DedicationInputs,
       ack \in AcknowledgementsInputs, bio \in BiographyInputs,
       syn \in SynopsisValues,
       titles \in SeqUpTo(ChapterTitleValues, MaxChapters),
       response \in ContentResponses :
        LET cfg == [ title |-> <<"A">>, subtitle |-> sub, authorName |-> <<"N">>,
                     authorBio |-> bio,
                     dedication |-> ded, acknowledgements |-> ack ]
            o == [ synopsis |-> syn, introductionTitle |-> "intro",
                   chapterTitles |-> titles, conclusionTitle |-> "concl" ]
            issued == ContentPromisesOf(GenerationConfig(cfg), o)
            promises == [ k \in DOMAIN issued |->
                            [ issued[k] EXCEPT !.state = "fulfilled" ] ]
            allContent == [ k \in DOMAIN promises |->
                              [ title |-> promises[k].title,
                                content |-> ContentOf(response, promises[k].title) ] ]
        IN  /\ title = cfg.title
            /\ authorName = cfg.authorName
            /\ authorBioOption = "manual"
            /\ authorBio = bio
            /\ coverFeedback = <<>>
            /\ isLoading = FALSE
            /\ loadingMessage = NoMessage
            /\ generatedBook = Some(AssembleBook(cfg, bio, o, allContent))
            /\ error = NULL
            /\ isSuggesting = FALSE
            /\ suggestedTitles = <<>>
            /\ coverImage = NULL
            /\ isCoverLoading = FALSE
            /\ pc = "idle"
            /\ config = Some(cfg)
            /\ finalAuthorBio = bio
            /\ outlineCall = "resolved"
            /\ outlineArg = Some(GenerationConfig(cfg))
            /\ outline = Some(o)
            /\ contentPromises = promises
            /\ fulfilOrder = [ k \in DOMAIN promises |-> k ]
            /\ coverCall = NULL
            /\ titlesCall = NULL
            /\ subtitle = sub
            /\ dedication = ded
            /\ acknowledgements = ack
            /\ fontFamily = "Garamond"
            /\ fontSize = 12
            /\ lineSpacing = 115
            /\ download = NULL

\* The download panel over a Book that is held.
NextExport ==
    \/ \E v \in FontFamilies : SetFontFamily(v)
    \/ \E v \in FontSizes : SetFontSize(v)
    \/ \E v \in LineSpacings : SetLineSpacing(v)
    \/ ClickDownload

SpecExport == InitExport /\ [][NextExport]_vars

\* ------------------------------------------------------------------ claims
Blank(s) == Falsy(Trim(s))

BookHeld == generatedBook # NULL

\* C1: whenever a Book is held, the title of its i-th chapter is the i-th
\* chapter title of the outline of the run that assembled it, whatever the
\* order in which the content calls fulfilled.
ChaptersFollowOutlineOrder ==
    BookHeld =>
        \A i \in 1..Len(Val(outline).chapterTitles) :
            /\ i \in 1..Len(Val(generatedBook).chapters)
            /\ Val(generatedBook).chapters[i].title = Val(outline).chapterTitles[i]

\* A Book with two differently titled chapters, whose four content calls
\* fulfilled in the reverse of the order they were issued in.
ReverseCompletionAssembled ==
    /\ BookHeld
    /\ Len(Val(generatedBook).chapters) = 2
    /\ Val(generatedBook).chapters[1].title # Val(generatedBook).chapters[2].title
    /\ fulfilOrder = <<4, 3, 2, 1>>

\* C2: whenever a Book is held, it has as many chapters as the outline has
\* chapter titles, its introduction and its conclusion carry the outline's
\* introduction and conclusion titles, and neither is among its chapters.
ChaptersExcludeIntroAndConclusion ==
    BookHeld =>
        LET book == Val(generatedBook)
            o == Val(outline)
        IN  /\ Len(book.chapters) = Len(o.chapterTitles)
            /\ book.introduction.title = o.introductionTitle
            /\ book.conclusion.title = o.conclusionTitle
            /\ \A i \in 1..Len(book.chapters) :
                   book.chapters[i] \notin { book.introduction, book.conclusion }

\* A Book assembled from an outline without chapter titles.
BookWithoutChapters ==
    /\ BookHeld
    /\ Val(outline).chapterTitles = <<>>
    /\ Val(generatedBook).chapters = <<>>

\* A step in which a content call rejects while the run awaits the calls.
ContentRejectsDuringRun(k) ==
    /\ pc = "content"
    /\ k \in 1..Len(contentPromises)
    /\ contentPromises[k].state = "pending"
    /\ contentPromises'[k].state = "rejected"

\* A step in which a content call settles after its run has ended.
ContentSettlesAfterRun ==
    /\ pc = "idle"
    /\ contentPromises' # contentPromises
    /\ contentPromises' # <<>>

\* C3: the step in which a content call rejects during the run ends the run
\* with no Book and with the error that names the content stage and the
\* section; no later settlement of the run's calls stores a Book or changes
\* the error; and no Book is held while the last run has a rejected call.
ContentRejectionFailsRun ==
    /\ [][ \A k \in 1..(MaxChapters + 2) :
             ContentRejectsDuringRun(k) =>
                 /\ generatedBook' = NULL
                 /\ pc' = "idle"
                 /\ ~isLoading'
                 /\ error' = Some(GenerateError(ContentFailure(contentPromises[k].title)))
         ]_vars
    /\ [][ ContentSettlesAfterRun => UNCHANGED <<generatedBook, error>> ]_vars
    /\ [](PromiseAll(contentPromises) = "rejected" => generatedBook = NULL)

\* A run of four calls ended by the rejection of the third, with the first
\* fulfilled and the last still pending.
MiddleSectionRejected ==
    /\ pc = "idle"
    /\ Len(contentPromises) = 4
    /\ contentPromises[1].state = "fulfilled"
    /\ contentPromises[3].state = "rejected"
    /\ contentPromises[4].state = "pending"
    /\ generatedBook = NULL
    /\ error = Some(GenerateError(ContentFailure(contentPromises[3].title)))

\* C4: whenever a Book is held, the run that assembled it issued one content
\* call per section of its outline and every one of them has fulfilled.
NoPartialBook ==
    BookHeld =>
        /\ outline # NULL
        /\ Len(contentPromises) = Len(Val(outline).chapterTitles) + 2
        /\ \A k \in 1..Len(contentPromises) : contentPromises[k].state = "fulfilled"

\* A Book assembled from the largest number of sections.
LongestBookAssembled ==
    /\ BookHeld
    /\ Len(contentPromises) = MaxChapters + 2
    /\ PromiseAll(contentPromises) = "fulfilled"

\* C5: content calls exist, and the run awaits them, only when the outline
\* request of the run has resolved.
OutlinePrecedesContent ==
    (contentPromises # <<>> \/ pc = "content") => outlineCall = "resolved"

\* A run awaiting its content calls, none of them settled.
ContentCallsIssued ==
    /\ pc = "content"
    /\ outlineCall = "resolved"
    /\ \A k \in 1..Len(contentPromises) : contentPromises[k].state = "pending"
    /\ Len(contentPromises) = 3

\* C6: the step in which the outline request rejects issues no content call,
\* stores no Book, sets the outline error and leaves the generate button
\* enabled; and an outline request is issued only by the start of a run or
\* by the biography step of a run, never after a failure.
OutlineFailureAbortsRun ==
    /\ [][ (outlineCall = "pending" /\ outlineCall' = "rejected") =>
               /\ contentPromises' = <<>>
               /\ generatedBook' = NULL
               /\ error' = Some(GenerateError(OutlineFailure))
               /\ ~isLoading'
               /\ pc' = "idle"
               /\ ~GenerateDisabled'
         ]_vars
    /\ [][ (outlineCall # "pending" /\ outlineCall' = "pending") =>
               \/ ~isLoading /\ isLoading'
               \/ pc = "bio"
         ]_vars

\* A run aborted by the failure of its outline request.
OutlineFailed ==
    /\ outlineCall = "rejected"
    /\ pc = "idle"
    /\ ~isLoading
    /\ generatedBook = NULL
    /\ contentPromises = <<>>
    /\ error = Some(GenerateError(OutlineFailure))

\* C7: when every call eventually settles a loading run eventually stops
\* loading; the step that ends it leaves a Book or an error and clears the
\* progress message; and only the settlement of the call the run awaits
\* ends it.
RunEventuallyEnds ==
    /\ isLoading ~> ~isLoading
    /\ [][ (isLoading /\ ~isLoading') =>
               /\ generatedBook' # NULL \/ error' # NULL
               /\ loadingMessage' = NoMessage
               /\ \/ pc = "bio"
                  \/ pc = "outline" /\ outlineCall' \in { "resolved", "rejected" }
                  \/ pc = "content" /\ contentPromises' # contentPromises
         ]_vars

\* A run ended by the failure of the biography request.
BioFailed ==
    /\ ~isLoading
    /\ loadingMessage = NoMessage
    /\ error = Some(GenerateError(BioFailure))
    /\ generatedBook = NULL

\* C8: the step that reports the validation error changes nothing but the
\* error, and from a state with a blank title or a blank author name no step
\* starts a run or issues a call of a run.
BlankSubmissionHasNoSideEffect ==
    /\ [][ (error' = Some(FormError) /\ error # Some(FormError)) =>
               UNCHANGED <<formVars, isLoading, loadingMessage, generatedBook,
                           isSuggesting, suggestedTitles, coverImage,
                           isCoverLoading, runVars, coverVars, titlesCall,
                           exportVars>>
         ]_vars
    /\ [][ (Blank(title) \/ Blank(authorName)) =>
               UNCHANGED <<isLoading, generatedBook, pc, outlineCall>>
         ]_vars

\* A rejected submission with a blank title that left the Book, its cover
\* and the listed suggestions in place.
BookSurvivedBlankSubmission ==
    /\ error = Some(FormError)
    /\ Blank(title)
    /\ BookHeld
    /\ coverImage # NULL
    /\ suggestedTitles # <<>>

\* The step in which the pending cover call settles.
CoverSettles ==
    /\ coverCall # NULL
    /\ Val(coverCall).state = "pending"
    /\ coverCall' # NULL
    /\ Val(coverCall').state # "pending"

\* C9: the step in which the cover call rejects sets the cover error, clears
\* isCoverLoading, and changes nothing else: the Book, the held image, the
\* feedback text and the rest of the state stay as they were.
CoverFailureLeavesBook ==
    [][ (CoverSettles /\ Val(coverCall').state = "rejected") =>
            /\ error' = Some(CoverError(CoverFailure))
            /\ ~isCoverLoading'
            /\ UNCHANGED <<generatedBook, coverImage, formVars, isLoading,
                           loadingMessage, isSuggesting, suggestedTitles,
                           runVars, titlesCall,
                           exportVars>>
      ]_vars

\* A failed correction of a held cover: the Book and the image are held.
CorrectionFailed ==
    /\ coverCall # NULL
    /\ Val(coverCall).state = "rejected"
    /\ Val(coverCall).feedback # NULL
    /\ error = Some(CoverError(CoverFailure))
    /\ BookHeld
    /\ coverImage # NULL
    /\ ~isCoverLoading

\* C10: the coverImage cell holds at most one image, and the step in which
\* a cover call resolves leaves in it the data URL of the bytes that call
\* returned, whatever image was held before.
CoverReplacedWholesale ==
    /\ [](coverImage = NULL
          \/ coverImage \in { Some(DataUrl(b)) : b \in ImageBytesValues })
    /\ [][ (CoverSettles /\ Val(coverCall').state = "fulfilled") =>
               /\ Val(coverCall').imageBase64 # NULL
               /\ coverImage' = Some(DataUrl(Val(Val(coverCall').imageBase64)))
         ]_vars

\* A successful correction with feedback: the held image is the new result.
CorrectionSucceeded ==
    /\ coverCall # NULL
    /\ Val(coverCall).state = "fulfilled"
    /\ Val(coverCall).feedback # NULL
    /\ coverImage = Some(DataUrl(Val(Val(coverCall).imageBase64)))
    /\ BookHeld

\* C11: whenever a cover image is held next to a Book, the cover request it
\* came from was issued with the title and the synopsis of that Book.
\* coverCall is the latest cover request; an image that is held came from it
\* or from an earlier request made for the same Book.
CoverBelongsToCurrentBook ==
    (coverImage # NULL /\ BookHeld) =>
        /\ coverCall # NULL
        /\ Val(coverCall).title = Val(generatedBook).title
        /\ Val(coverCall).synopsis = Val(generatedBook).synopsis

\* A step of handleSuggestTitles: the click that issues the request, or the
\* settlement of the request.
SuggestionRequestStep == titlesCall' # titlesCall

\* A step in which the user types in the title input: nothing but the title
\* changes.
TitleEdited ==
    /\ ~isLoading
    /\ UNCHANGED <<authorName, authorBioOption, authorBio, coverFeedback,
                   appVars, runVars, coverVars, titlesCall,
                   exportVars>>

\* A step in which the user picks one of the listed suggestions.
SuggestionPicked ==
    /\ ~isSuggesting
    /\ \E i \in 1..Len(suggestedTitles) : title' = suggestedTitles[i]
    /\ suggestedTitles' = <<>>

\* C12: no step of a title-suggestion request, issued, resolved or rejected,
\* changes the working title; the title changes only in a step in which the
\* user edits it or picks a listed suggestion.
SuggestionRequestKeepsTitle ==
    [][ /\ SuggestionRequestStep => title' = title
        /\ title' # title => (TitleEdited \/ SuggestionPicked)
      ]_vars

\* Suggestions were delivered for the title "A" and are listed; the title is
\* still "A".
SuggestionsListedTitleKept ==
    /\ suggestedTitles # <<>>
    /\ ~isSuggesting
    /\ titlesCall = NULL
    /\ title = <<"A">>
    /\ \A i \in 1..Len(suggestedTitles) : suggestedTitles[i] # title

\* The step in which the title-suggestion request rejects.
SuggestionRequestFails ==
    /\ titlesCall # NULL
    /\ titlesCall' = NULL
    /\ error' = Some(SuggestError(TitlesFailure))

\* C13: no step of a title-suggestion request changes the loading flag, the
\* progress message, the Book, the cover or any other state of a generation
\* run; the step in which the request rejects sets the error, clears
\* isSuggesting and changes nothing else, and after it the generate button is
\* enabled whenever the title and the author name are filled in.
SuggestionRequestIsolated ==
    [][ /\ SuggestionRequestStep =>
               UNCHANGED <<isLoading, loadingMessage, generatedBook,
                           coverImage, isCoverLoading, runVars, coverVars,
                           formVars,
                           exportVars>>
        /\ SuggestionRequestFails =>
               /\ ~isSuggesting'
               /\ UNCHANGED suggestedTitles
               /\ (~Falsy(title) /\ ~Falsy(authorName)) => ~GenerateDisabled'
      ]_vars

\* A suggestion request failed while a Book and its cover were held: both
\* are still held next to the suggestion error, and no run is loading.
SuggestionFailedBesideBook ==
    /\ error = Some(SuggestError(TitlesFailure))
    /\ ~isSuggesting
    /\ BookHeld
    /\ coverImage # NULL
    /\ ~isLoading
    /\ ~GenerateDisabled

\* The step in which a submission passes the validation and a run starts.
RunStarts == ~isLoading /\ isLoading'

\* The step in which a run ends with an error.
RunEndsInError == isLoading /\ ~isLoading' /\ error' # error

ExportedDoc == Val(download).doc
ExportedBook == Val(download).book

\* The nodes of the document that open a page or a section: all but the
\* prose paragraphs, the page breaks and the two lines under the title.
SectionOpeners(children) ==
    SelectSeq(children,
              LAMBDA n : n.format \notin {"normalPara", "PageBreak",
                                          "subtitle", "author"})

\* The text of every node of a sequence.
TextsOf(nodes) == [ i \in DOMAIN nodes |-> nodes[i].text ]

\* C15: in an exported document the pages and sections open in this order:
\* title page, copyright page, dedication if the Book has one, synopsis,
\* introduction, the chapters in the order of the Book, conclusion,
\* acknowledgements if present, author biography if present, closing page;
\* and the heading of every chapter directly follows a page break.
ExportOrderFixed ==
    download # NULL =>
        LET book == ExportedBook
            children == ExportedDoc.children
            present(text, opener) == IF text = <<>> THEN <<>> ELSE << opener >>
        IN  /\ TextsOf(SectionOpeners(children)) =
                   << book.title, book.copyright >>
                   \o present(book.dedication, book.dedication)
                   \o << <<"Synopsis">>, << book.introduction.title >> >>
                   \o [ i \in DOMAIN book.chapters |-> << book.chapters[i].title >> ]
                   \o << << book.conclusion.title >> >>
                   \o present(book.acknowledgements, <<"Acknowledgements">>)
                   \o present(book.authorBio, <<"About the Author">>)
                   \o << <<"Thank you for reading.">> >>
            /\ \A i \in DOMAIN children :
                   (\E k \in DOMAIN book.chapters :
                        children[i] = Heading(<< book.chapters[k].title >>))
                   => (i > 1 /\ children[i - 1] = PageBreakParagraph)

\* A Book with two differently titled chapters and all three optional
\* sections was exported.
FullBookExported ==
    /\ download # NULL
    /\ Len(ExportedBook.chapters) = 2
    /\ ExportedBook.chapters[1].title # ExportedBook.chapters[2].title
    /\ ExportedBook.dedication # <<>>
    /\ ExportedBook.acknowledgements # <<>>
    /\ ExportedBook.authorBio # <<>>

\* The number of nodes of a sequence that satisfy a test.
CountOf(nodes, Test(_)) == Cardinality({ i \in DOMAIN nodes : Test(nodes[i]) })

\* C16: an exported document has a dedication page exactly when the Book's
\* dedication is non-empty, an acknowledgements heading exactly when its
\* acknowledgements are non-empty, and an author heading exactly when its
\* biography is non-empty; an empty field adds no heading and no page break:
\* the page breaks and the headings are those of the mandatory sections plus
\* one each per optional section present.
OptionalSectionsIffNonEmpty ==
    download # NULL =>
        LET book == ExportedBook
            children == ExportedDoc.children
            has(node) == \E i \in DOMAIN children : children[i] = node
            one(text) == IF text = <<>> THEN 0 ELSE 1
        IN  /\ (\E i \in DOMAIN children : children[i].format = "CENTER italics")
                   <=> book.dedication # <<>>
            /\ book.dedication # <<>>
                   => has(Paragraph(book.dedication, "CENTER italics"))
            /\ has(Heading(<<"Acknowledgements">>)) <=> book.acknowledgements # <<>>
            /\ has(Heading(<<"About the Author">>)) <=> book.authorBio # <<>>
            /\ CountOf(children, LAMBDA n : n = PageBreakParagraph) =
                   5 + Len(book.chapters) + one(book.dedication)
                     + one(book.acknowledgements) + one(book.authorBio)
            /\ CountOf(children, LAMBDA n : n.format = "HEADING_1") =
                   3 + Len(book.chapters)
                     + one(book.acknowledgements) + one(book.authorBio)

\* A Book was exported whose dedication is empty, whose acknowledgements are
\* a single blank, and whose biography has text.
MixedOptionalSectionsExported ==
    /\ download # NULL
    /\ ExportedBook.dedication = <<>>
    /\ ExportedBook.acknowledgements = <<" ">>
    /\ ExportedBook.authorBio # <<>>

\* The positions at which the lines of a text start: its first position and
\* the one after each line break.
LineStarts(s) == {1} \cup { k + 1 : k \in { j \in DOMAIN s : s[j] = "\n" } }

\* The line of a text that starts at a position: the characters up to the
\* next line break or the end of the text.
LineAt(s, start) ==
    LET stops == { k \in start..Len(s) : s[k] = "\n" } \cup { Len(s) + 1 }
        stop == CHOOSE k \in stops : \A j \in stops : k <= j
    IN  SubSeq(s, start, stop - 1)

\* The lines of a text that hold a character other than a blank, in the
\* order of the text.
LinesWithText(s) ==
    LET starts == { i \in LineStarts(s) :
                      \E k \in DOMAIN LineAt(s, i) : LineAt(s, i)[k] # " " }
        nth(n) == CHOOSE i \in starts :
                      Cardinality({ j \in starts : j < i }) = n - 1
    IN  [ n \in 1..Cardinality(starts) |-> LineAt(s, nth(n)) ]

\* The lines with text of every chapter, one chapter after the other.
RECURSIVE ChapterLinesWithText(_)
ChapterLinesWithText(chapters) ==
    IF chapters = <<>> THEN <<>>
    ELSE LinesWithText(Head(chapters).content)
         \o ChapterLinesWithText(Tail(chapters))

\* C17: in an exported document no prose paragraph has a text that is empty,
\* blank or broken by a line break, and the texts of the prose paragraphs
\* are the lines with text of the synopsis, the introduction, the chapters,
\* the conclusion, the acknowledgements and the biography, each in its
\* original order.
ProseSplitDropsEmptyLines ==
    download # NULL =>
        LET book == ExportedBook
            prose == SelectSeq(ExportedDoc.children,
                               LAMBDA n : n.format = "normalPara")
        IN  /\ \A i \in DOMAIN prose :
                   /\ \E k \in DOMAIN prose[i].text : prose[i].text[k] # " "
                   /\ \A k \in DOMAIN prose[i].text : prose[i].text[k] # "\n"
            /\ TextsOf(prose) =
                   LinesWithText(book.synopsis)
                   \o LinesWithText(book.introduction.content)
                   \o ChapterLinesWithText(book.chapters)
                   \o LinesWithText(book.conclusion.content)
                   \o LinesWithText(book.acknowledgements)
                   \o LinesWithText(book.authorBio)

\* A Book was exported whose sections hold empty lines and a blank line
\* between two lines of text.
BlankLinesExported ==
    /\ download # NULL
    /\ ExportedBook.introduction.content =
           << "\n", "intro", "\n", " ", "\n", "\n", "q", " ", "\n" >>
    /\ ExportedBook.acknowledgements = <<"k", "\n", " ", "\n", "l">>
    /\ ExportedBook.chapters # <<>>

\* C18: with a font size from 10 to 14 and a line spacing of 1.15 or 1.5,
\* every prose paragraph of an exported document names the style whose run
\* size is twice the font size, in half-points, and whose line spacing is
\* 240 times the line spacing rounded to the nearest integer; a font size
\* of 12 and a spacing of 1.5 give 24 and 360.
BodyStyleFollowsOptions ==
    download # NULL =>
        LET options == Val(download).options
            styles == ExportedDoc.paragraphStyles
            children == ExportedDoc.children
            body == { i \in DOMAIN children :
                        children[i].format \in DOMAIN styles
                        /\ children[i].format \notin {"subtitle", "author"} }
        IN  /\ options.fontSize \in 10..14
            /\ options.lineSpacing \in {115, 150}
            /\ body = { i \in DOMAIN children : children[i].format = "normalPara" }
            /\ \A i \in body :
                   LET style == styles[children[i].format]
                   IN  /\ style.size = 2 * options.fontSize
                       /\ 100 * style.line - 50 <= 240 * options.lineSpacing
                       /\ 240 * options.lineSpacing < 100 * style.line + 50
                       /\ (options.fontSize = 12 /\ options.lineSpacing = 150)
                              => (style.size = 24 /\ style.line = 360)
                       /\ (options.fontSize = 12 /\ options.lineSpacing = 115)
                              => style.line = 276

\* A Book was exported in 12 pt with a line spacing of 1.5 after the user
\* moved both selects.
ExportedAt12PtOneAndAHalf ==
    /\ download # NULL
    /\ Val(download).options.fontSize = 12
    /\ Val(download).options.lineSpacing = 150
    /\ Val(download).options.fontFamily = "Times New Roman"
    /\ fontSize = 14
    /\ \E i \in DOMAIN ExportedDoc.children :
           ExportedDoc.children[i].format = "normalPara"

\* The step in which the outline call settles with a response that is no
\* usable outline: the model call failed, its text did not parse, or it
\* parsed to an object without the chapter title list.
MalformedOutlineSettles ==
    /\ outlineCall = "pending"
    /\ \/ outlineCall' = "rejected"
       \/ /\ outlineCall' = "resolved"
          /\ "chapterTitles" \notin DOMAIN Val(outline')

\* C19: the step in which the outline call settles with a malformed
\* response, a parsed one without chapter title list included, sets the one
\* generic outline error, ends the run and issues no content call.
MalformedOutlineIsGenericFailure ==
    [][ MalformedOutlineSettles =>
            /\ error' = Some(GenerateError(OutlineFailure))
            /\ contentPromises' = <<>>
            /\ generatedBook' = NULL
            /\ ~isLoading'
            /\ pc' = "idle"
      ]_vars

\* The step in which the outline request of a run is issued.
OutlineRequestIssued == outlineCall # "pending" /\ outlineCall' = "pending"

\* The step in which a run stores its Book.
BookStored == generatedBook = NULL /\ generatedBook' # NULL

\* C20: the start of a run issues the biography request exactly when the
\* automatic biography is selected; no outline request exists while the
\* biography request is pending, and with the automatic biography the
\* outline request is issued in the step in which the biography request
\* resolves, which also writes the generated text to the authorBio field of
\* the form; the Book then stored carries the generated text, and with the
\* manual biography it carries the text of the form, which is the text the
\* run was submitted with.
BioPrecedesOutline ==
    /\ [][ RunStarts =>
               /\ (pc' = "bio") <=> (authorBioOption = "auto")
               /\ (pc' = "outline" /\ outlineCall' = "pending")
                      <=> (authorBioOption = "manual")
               /\ finalAuthorBio' = authorBio
         ]_vars
    /\ [](pc = "bio" => (isLoading /\ outlineCall = "none"))
    /\ [][ (OutlineRequestIssued /\ authorBioOption = "auto") =>
               /\ pc = "bio"
               /\ finalAuthorBio' = GeneratedBio
               /\ authorBio' = GeneratedBio
         ]_vars
    /\ [][ (isLoading /\ authorBioOption = "manual") =>
               UNCHANGED <<authorBio, finalAuthorBio>> ]_vars
    /\ [][ BookStored =>
               /\ Val(generatedBook').authorBio = authorBio'
               /\ authorBioOption = "auto"
                      => Val(generatedBook').authorBio = GeneratedBio
               /\ authorBioOption = "manual"
                      => Val(generatedBook').authorBio = finalAuthorBio
         ]_vars

\* A Book with chapters assembled with the automatic biography: the Book and
\* the form both hold the generated text.
AutoBioWrittenBack ==
    /\ BookHeld
    /\ authorBioOption = "auto"
    /\ Val(generatedBook).authorBio = GeneratedBio
    /\ authorBio = GeneratedBio
    /\ Val(generatedBook).chapters # <<>>

\* C21: the step in which a run ends in error leaves no Book and no cover,
\* and leaves the title, the author name and the biography of the form as
\* they were when the run was submitted: nothing an earlier stage of the run
\* produced, a generated biography included, stays in the state.
AbortedRunRetainsNothing ==
    [][ RunEndsInError =>
            /\ generatedBook' = NULL
            /\ coverImage' = NULL
            /\ title' = Val(config).title
            /\ authorName' = Val(config).authorName
            /\ authorBio' = Val(config).authorBio
      ]_vars

\* The title, subtitle and author name of a record are those of another.
SameConfiguration(a, b) ==
    /\ a.title = b.title
    /\ a.subtitle = b.subtitle
    /\ a.authorName = b.authorName

\* The fields of the form that feed the configuration.
ConfigurationFields == [ title |-> title, subtitle |-> subtitle,
                         authorName |-> authorName ]

\* C22: the start of a run takes the configuration from the form; while the
\* run is loading neither the snapshot nor a field of the form that feeds it
\* changes; the outline call and every content call of the run carry the
\* values of the snapshot; and the Book the run stores has the title, the
\* subtitle and the author name of the snapshot, which are those of the form.
ConfigurationIsSnapshot ==
    /\ [][ RunStarts => SameConfiguration(Val(config'), ConfigurationFields) ]_vars
    /\ [][ isLoading => UNCHANGED <<config, title, subtitle, authorName>> ]_vars
    /\ [](isLoading => SameConfiguration(Val(config), ConfigurationFields))
    /\ [](outlineArg # NULL => SameConfiguration(Val(outlineArg), Val(config)))
    /\ [](\A k \in DOMAIN contentPromises :
              SameConfiguration(contentPromises[k].config, Val(config)))
    /\ [][ BookStored =>
               /\ SameConfiguration(Val(generatedBook'), Val(config))
               /\ SameConfiguration(Val(generatedBook'), ConfigurationFields')
         ]_vars

\* A Book with a subtitle and two chapters was stored: the outline call and
\* the four content calls of its run carried the subtitle.
SnapshotReachedEveryCall ==
    /\ BookHeld
    /\ Val(generatedBook).subtitle = <<"s">>
    /\ Len(contentPromises) = 4
    /\ \A k \in DOMAIN contentPromises : contentPromises[k].config.subtitle = <<"s">>
    /\ Val(outlineArg).subtitle = <<"s">>

\* The whole application with the download button of the result panel.
NextPanel == NextApp \/ ClickDownload

SpecPanel == Init /\ [][NextPanel]_vars

\* The step in which a run ends and stores the Book it assembled.
RunStoresBook == isLoading /\ ~isLoading' /\ BookStored

\* C23: generatedBook changes only in the step that starts a run, which
\* resets it to null, and in the step in which a run stores the Book it
\* assembled; the steps of a cover request, of a suggestion request, the
\* choice of a suggestion, the edits of the form and the download leave it
\* as it is.
StoredBookIsReadOnly ==
    [][ generatedBook' # generatedBook =>
            \/ RunStarts /\ generatedBook' = NULL
            \/ RunStoresBook
      ]_vars

\* A Book is held after its cover was generated, a suggestion was chosen as
\* the new title and the Book was downloaded: it still has the title it was
\* generated with.
BookKeptThroughPanelUse ==
    /\ BookHeld
    /\ coverImage # NULL
    /\ title = <<"B">>
    /\ Val(generatedBook).title = <<"A">>
    /\ download # NULL
    /\ Val(download).book = Val(generatedBook)

\* The step in which the content calls of a run are issued.
ContentCallsAreIssued == contentPromises = <<>> /\ contentPromises' # <<>>

\* C24: the outline request of a run is issued once, by the start of the run
\* or by the resolution of its biography request; the content calls are
\* issued in one step, all pending, one for the introduction, one per chapter
\* title of the outline in order, one for the conclusion; afterwards the
\* calls stay the same calls and a settled call never becomes pending again;
\* and once the run has ended no call is issued until a new run starts.
NoCallIsRetried ==
    /\ [][ OutlineRequestIssued =>
               \/ RunStarts
               \/ pc = "bio" /\ outlineCall = "none" ]_vars
    /\ [][ (isLoading /\ outlineCall \in {"resolved", "rejected"})
               => outlineCall' = outlineCall ]_vars
    /\ [][ ContentCallsAreIssued =>
               LET titles == Val(outline').chapterTitles
                   n == Len(titles)
               IN  /\ outlineCall = "pending" /\ outlineCall' = "resolved"
                   /\ Len(contentPromises') = n + 2
                   /\ contentPromises'[1].title = Val(outline').introductionTitle
                   /\ \A i \in 1..n : contentPromises'[i + 1].title = titles[i]
                   /\ contentPromises'[n + 2].title = Val(outline').conclusionTitle
                   /\ \A k \in 1..(n + 2) : contentPromises'[k].state = "pending"
         ]_vars
    /\ [][ (contentPromises # <<>> /\ contentPromises' # <<>>) =>
               /\ Len(contentPromises') = Len(contentPromises)
               /\ \A k \in DOMAIN contentPromises :
                      /\ contentPromises'[k].title = contentPromises[k].title
                      /\ contentPromises[k].state # "pending"
                             => contentPromises'[k].state = contentPromises[k].state
         ]_vars
    /\ [][ (~isLoading /\ ~isLoading') =>
               /\ pc' = "idle"
               /\ outlineCall' = outlineCall
               /\ Len(contentPromises') = Len(contentPromises)
               /\ \A k \in DOMAIN contentPromises :
                      contentPromises'[k].state = "pending"
                          => contentPromises[k].state = "pending"
         ]_vars

\* A run with four content calls ended in error on the rejection of one of
\* them while another was still pending; nothing was issued again.
RunFailedWithoutRetry ==
    /\ ~isLoading
    /\ pc = "idle"
    /\ error # NULL
    /\ outlineCall = "resolved"
    /\ Len(contentPromises) = 4
    /\ \E k \in 1..4 : contentPromises[k].state = "rejected"
    /\ \E k \in 1..4 : contentPromises[k].state = "pending"

\* The step in which a cover request is issued.
CoverRequestIssued ==
    /\ ~(coverCall # NULL /\ Val(coverCall).state = "pending")
    /\ coverCall' # NULL
    /\ Val(coverCall').state = "pending"

\* C25: a cover request carries the feedback of the control that issued it
\* and nothing of earlier requests: none from the generate control, the text
\* of the feedback field from the correct control; its prompt ends with the
\* correction instructions, made of that text alone, exactly when that text
\* is not blank; the step in which the request resolves empties the
\* feedback field, and the step in which it rejects leaves the field as it
\* is.
CoverFeedbackNotAccumulated ==
    /\ [][ CoverRequestIssued =>
               LET call == Val(coverCall')
                   supplied == IF coverImage = NULL THEN NULL
                               ELSE Some(coverFeedback)
                   instructed == supplied # NULL /\ ~Blank(Val(supplied))
                   base == 1 + Len(call.synopsis)
               IN  /\ call.feedback = supplied
                   /\ Len(call.prompt) > base <=> instructed
                   /\ instructed =>
                          SubSeq(call.prompt, base + 2, Len(call.prompt))
                              = Val(supplied)
         ]_vars
    /\ [][ (CoverSettles /\ Val(coverCall').state = "fulfilled")
               => coverFeedback' = <<>> ]_vars
    /\ [][ (CoverSettles /\ Val(coverCall').state = "rejected")
               => coverFeedback' = coverFeedback ]_vars

\* A correction of a held cover went out with the feedback "f" in its
\* prompt and failed: the feedback is still in the field.
FailedCorrectionKeptFeedback ==
    /\ coverCall # NULL
    /\ Val(coverCall).state = "rejected"
    /\ Val(coverCall).feedback = Some(<<"f">>)
    /\ coverFeedback = <<"f">>
    /\ Len(Val(coverCall).prompt) = 4
    /\ coverImage # NULL

\* The position of the handler in a run, in the order of the code.
StepOf(position) ==
    CASE position = "bio" -> 1
      [] position = "outline" -> 2
      [] position = "content" -> 3
      [] position = "idle" -> 4

\* C26: while isLoading is true the generate control is disabled and one
\* activation of handleGenerateBook is live, and it is live only then; a run
\* starts only when none is live; while a run is loading its snapshot is not
\* replaced and its handler only moves forward; and the loading flag, the
\* progress message and the Book change only in the step that starts a run
\* or in a step of the run that is loading, as does a generation error.
OneRunAtATime ==
    /\ [](isLoading => GenerateDisabled)
    /\ [](isLoading <=> pc # "idle")
    /\ [][ RunStarts => pc = "idle" ]_vars
    /\ [][ isLoading => (config' = config /\ StepOf(pc') >= StepOf(pc)) ]_vars
    /\ [][ <<isLoading, loadingMessage, generatedBook>>'
               # <<isLoading, loadingMessage, generatedBook>>
           => (RunStarts \/ (isLoading /\ pc' # pc)) ]_vars
    /\ [][ (error' # error
            /\ error' \in { Some(GenerateError(m)) :
                              m \in { OutlineFailure, BioFailure, UndefinedLength }
                                    \cup { ContentFailure(t) : t \in {"intro", "concl"} } })
           => (isLoading /\ ~isLoading') ]_vars

\* A run is awaiting its content calls over a filled form with no suggestion
\* request pending: only the loading flag keeps the generate control disabled.
ButtonDisabledByLoadingOnly ==
    /\ isLoading
    /\ pc = "content"
    /\ ~Falsy(title)
    /\ ~Falsy(authorName)
    /\ ~isSuggesting
    /\ GenerateDisabled

\* C27: whenever a cover image is held, a Book is held.
CoverImpliesBook == coverImage # NULL => BookHeld

\* C28: the step in which a run stores its Book and returns to idle leaves
\* the error null.
SuccessfulRunShowsNoError ==
    [][ RunStoresBook => error' = NULL ]_vars

\* The step in which handleGenerateCover issues a request.
CoverHandlerIssues ==
    /\ coverCall' # coverCall
    /\ coverCall' # NULL
    /\ Val(coverCall').state = "pending"

\* C29: isCoverLoading is true exactly while a cover request is pending; a
\* cover request is issued only while none is pending, isCoverLoading is
\* false and a Book is shown, and it is issued for that Book; so no two
\* cover requests are ever in flight together.
OneCoverRequestAtATime ==
    /\ [](isCoverLoading <=> CoverPending)
    /\ [][ CoverHandlerIssues =>
               /\ ~isCoverLoading
               /\ ~CoverPending
               /\ BookHeld
               /\ Val(coverCall').title = Val(generatedBook).title
               /\ isCoverLoading'
         ]_vars
    /\ [][ (CoverPending /\ coverCall' # coverCall) => CoverSettles ]_vars

\* A correction of the cover is pending for the Book that is shown.
CorrectionPending ==
    /\ CoverPending
    /\ isCoverLoading
    /\ Val(coverCall).feedback # NULL
    /\ BookHeld
    /\ ~isLoading
    /\ coverImage # NULL

\* The step a progress message names: 0 for the empty message, 1 for the
\* biography, 2 for the outline, 3 for the content, 4 for the assembly.
MessageStep(message) ==
    CASE message = NoMessage -> 0
      [] message = Step1Message -> 1
      [] message = Step2Message -> 2
      [] message = Step4Message -> 4
      [] OTHER -> 3

\* C30: the progress message is non-empty only while a run is in flight:
\* whenever isLoading is false, loadingMessage is empty; a run starts at the
\* biography step only when the automatic biography is selected and at the
\* outline step otherwise; and from one state of a run to the next the
\* message stays or moves on by one step, never back.
ProgressMessageOnlyForward ==
    /\ [](~isLoading => loadingMessage = NoMessage)
    /\ [][ (~isLoading /\ isLoading') =>
               MessageStep(loadingMessage') =
                   IF authorBioOption = "auto" THEN 1 ELSE 2 ]_vars
    /\ [][ (isLoading /\ isLoading') =>
               /\ MessageStep(loadingMessage') >= MessageStep(loadingMessage)
               /\ MessageStep(loadingMessage') <= MessageStep(loadingMessage) + 1
               /\ MessageStep(loadingMessage') > 0 ]_vars

\* A run has ended in a Book that carries the generated biography, and the
\* progress message is empty again.
MessageClearedAfterAutoBioRun ==
    /\ ~isLoading
    /\ loadingMessage = NoMessage
    /\ pc = "idle"
    /\ generatedBook # NULL
    /\ Val(generatedBook).authorBio = GeneratedBio
    /\ outline # NULL
    /\ MessageStep(Step3Message(Val(outline))) = 3
====
